---- MODULE Spec2Model ----
(***************************************************************************)
(* Model of the accessibility scan of wp-accessibility-validator:         *)
(*   - the scan orchestrator   (src/src/hooks/useAccessibilityScan.ts)    *)
(*   - the save wait           (src/src/utils/saveAndPreview.ts)          *)
(*   - the preview scan        (runPreviewScan, src/src/utils/dom.ts)     *)
(*   - the block tree helpers  (src/unnamed/part_008)                     *)
(* One action is the code that runs between two suspension points of the  *)
(* single-threaded event loop.                                            *)
(***************************************************************************)
EXTENDS Integers, Sequences, FiniteSets, TLC

(***************************************************************************)
(* Bounds                                                                  *)
(***************************************************************************)
\* number of invocations of handleScanClick that get past its guard
MaxRuns == 2
\* number of nodes of one raw axe result
MaxNodes == 2
\* number of edits the author makes to the block tree
MaxEdits == 1
\* the calls of registerViolationStore
MaxInits == 2
\* the blocks of the editor whose identifiers are followed
MaxBlocks == 2

Runs == 1..MaxRuns

None == "none"

(***************************************************************************)
(* The host's block tree.  Blocks "a" and "b" are top-level, "c" is an     *)
(* inner block of "b".  A tree is given by the set of blocks present.      *)
(***************************************************************************)
Units == {"a", "b", "c"}

ValidTree(p) == p \subseteq Units /\ ("c" \in p => "b" \in p)

Trees == {p \in SUBSET Units : ValidTree(p)}

\* attributes.wpavId of a block: `wpav-${clientId}`
wpavId(u) == "wpav-" \o u

Block(u, inner) ==
  [clientId |-> u, name |-> "core/" \o u, wpavId |-> wpavId(u), innerBlocks |-> inner]

\* select('core/block-editor').getBlocks(): the top-level blocks, nested
getBlocks(p) ==
  (IF "a" \in p THEN <<Block("a", <<>>)>> ELSE <<>>)
  \o (IF "b" \in p
        THEN <<Block("b", IF "c" \in p THEN <<Block("c", <<>>)>> ELSE <<>>)>>
        ELSE <<>>)

RECURSIVE flattenFrom(_, _)
RECURSIVE flattenBlocks(_)
\* for (const block of blocksToFlatten) { all.push(block); all.push(...inner) }
flattenFrom(blocksToFlatten, i) ==
  IF i > Len(blocksToFlatten) THEN <<>>
  ELSE <<blocksToFlatten[i]>>
       \o (IF Len(blocksToFlatten[i].innerBlocks) > 0
             THEN flattenBlocks(blocksToFlatten[i].innerBlocks)
             ELSE <<>>)
       \o flattenFrom(blocksToFlatten, i + 1)

flattenTopLevelOnly(blocksToFlatten) == blocksToFlatten

flattenBlocks(blocksToFlatten) == flattenFrom(blocksToFlatten, 1)

(***************************************************************************)
(* The sandbox document.  The render response holds one element carrying   *)
(* data-wpav-block-id per rendered block, wrapped in the <main> landmark   *)
(* of buildScanDocumentHtml; "img_a", "div_b" and "p_c" are inner markup   *)
(* of the blocks and carry no identifier.  "div_b" is the inner container  *)
(* of block "b" and holds the markup of its inner block "c".               *)
(***************************************************************************)
DocumentOrder == <<"main", "el_a", "img_a", "el_b", "div_b", "el_c", "p_c">>

unitOfElement(e) ==
  CASE e \in {"el_a", "img_a"} -> "a"
    [] e \in {"el_b", "div_b"} -> "b"
    [] e \in {"el_c", "p_c"} -> "c"
    [] OTHER -> None

\* the elements of the document rendered from the blocks in r
inDocument(r, e) == e = "main" \/ unitOfElement(e) \in r

parentElement(e) ==
  CASE e = "el_a" -> "main"
    [] e = "img_a" -> "el_a"
    [] e = "el_b" -> "main"
    [] e = "div_b" -> "el_b"
    [] e = "el_c" -> "div_b"
    [] e = "p_c" -> "el_c"
    [] OTHER -> None

\* getAttribute('data-wpav-block-id'); None when hasAttribute is false
blockIdAttribute(e) ==
  CASE e = "el_a" -> wpavId("a")
    [] e = "el_b" -> wpavId("b")
    [] e = "el_c" -> wpavId("c")
    [] OTHER -> None

\* iframeDoc.querySelectorAll('[data-wpav-block-id]').length
blockElements(r) ==
  Cardinality({e \in {"el_a", "el_b", "el_c"} : inDocument(r, e)})

InvalidSelector == "[[["

\* the elements a selector matches, whatever the document
selectorMatches(selector) ==
  CASE selector = "img, p" -> {"img_a", "p_c"}
    [] selector = "#gone" -> {}
    [] selector = InvalidSelector -> {}
    [] OTHER -> {e \in {"main", "el_a", "img_a", "el_b", "div_b", "el_c", "p_c"} :
                   selector = "#" \o e}

RECURSIVE selectInOrder(_, _, _)
selectInOrder(r, selector, i) ==
  IF i > Len(DocumentOrder) THEN <<>>
  ELSE (IF DocumentOrder[i] \in selectorMatches(selector)
           /\ inDocument(r, DocumentOrder[i])
          THEN <<DocumentOrder[i]>> ELSE <<>>)
       \o selectInOrder(r, selector, i + 1)

\* iframeDoc.querySelectorAll(selector): throws on a bad selector,
\* else the matching elements in document order
querySelectorAll(r, selector) ==
  IF selector = InvalidSelector
    THEN [threw |-> TRUE, elements |-> <<>>]
    ELSE [threw |-> FALSE, elements |-> selectInOrder(r, selector, 1)]

\* a value that an `if (blockId)` accepts
Truthy(id) == id # None /\ id # ""

\* the identifier of the outermost ancestor that carries one
outermostBlockId(e) ==
  LET up1 == parentElement(e)
      up2 == parentElement(up1)
      up3 == parentElement(up2)
      up4 == parentElement(up3)
      carriers == SelectSeq(<<up4, up3, up2, up1, e>>,
                            LAMBDA x : x # None /\ blockIdAttribute(x) # None)
  IN IF e = None \/ Len(carriers) = 0 THEN None
     ELSE blockIdAttribute(carriers[1])

RECURSIVE closestBlockId(_)
\* while (parent) { if (parent.hasAttribute(..)) { blockId = ..; break }
\*                  parent = parent.parentElement }
closestBlockId(e) ==
  IF e = None THEN None
  ELSE IF blockIdAttribute(e) # None THEN blockIdAttribute(e)
  ELSE closestBlockId(parentElement(e))

RECURSIVE hasBlockAncestor(_)
hasBlockAncestor(e) ==
  IF e = None THEN FALSE
  ELSE IF blockIdAttribute(e) # None THEN TRUE
  ELSE hasBlockAncestor(parentElement(e))

(***************************************************************************)
(* Raw axe results.  A node is [target, hasHtml, htmlIds]: target is the   *)
(* selector array, hasHtml says that node.html is a string, and htmlIds    *)
(* lists the values of the data-wpav-block-id="..." occurrences of that    *)
(* string, in textual order.                                               *)
(***************************************************************************)
\* /data-wpav-block-id="[^"]+"/.test(node.html)
htmlHasBlockId(node) ==
  node.hasHtml /\ \E i \in 1..Len(node.htmlIds) : node.htmlIds[i] # ""

\* node.html.match(/data-wpav-block-id="([^\"]*)"/): match[1] of the first
\* occurrence, None without a match
htmlFirstBlockId(node) ==
  IF node.hasHtml /\ Len(node.htmlIds) > 0 THEN node.htmlIds[1] ELSE None

RECURSIVE anyElementInBlock(_, _)
anyElementInBlock(elements, i) ==
  IF i > Len(elements) THEN FALSE
  ELSE hasBlockAncestor(elements[i]) \/ anyElementInBlock(elements, i + 1)

RECURSIVE anyTargetInBlock(_, _, _)
\* the fallback of the node filter: for (const targetSelector of targets)
anyTargetInBlock(r, targets, i) ==
  IF i > Len(targets) THEN FALSE
  ELSE LET q == querySelectorAll(r, targets[i]) IN
       IF q.threw THEN anyTargetInBlock(r, targets, i + 1)
       ELSE anyElementInBlock(q.elements, 1)
            \/ anyTargetInBlock(r, targets, i + 1)

RECURSIVE queriesUntilFound(_, _, _)
\* the selectors handed to querySelectorAll by a loop over the targets
\* that stops at the first selector that yields a block
queriesUntilFound(r, targets, i) ==
  IF i > Len(targets) THEN <<>>
  ELSE LET q == querySelectorAll(r, targets[i]) IN
       IF ~q.threw /\ anyElementInBlock(q.elements, 1)
         THEN <<targets[i]>>
         ELSE <<targets[i]>> \o queriesUntilFound(r, targets, i + 1)

filterNodeNoFastPath(r, node) ==
  [keep |-> anyTargetInBlock(r, node.target, 1),
   queries |-> queriesUntilFound(r, node.target, 1)]

\* the callback of violation.nodes.filter(...): whether the node is kept,
\* and the live-document queries made to decide it
filterNode(r, node) ==
  IF htmlHasBlockId(node)
    THEN [keep |-> TRUE, queries |-> <<>>]
    ELSE [keep |-> anyTargetInBlock(r, node.target, 1),
          queries |-> queriesUntilFound(r, node.target, 1)]

keepNode(r, node) == filterNode(r, node).keep

RECURSIVE firstBlockIdOf(_, _)
\* for (const el of Array.from(elements)) { walk up; if (blockId) break }
firstBlockIdOf(elements, i) ==
  IF i > Len(elements) THEN None
  ELSE IF Truthy(closestBlockId(elements[i])) THEN closestBlockId(elements[i])
  ELSE firstBlockIdOf(elements, i + 1)

RECURSIVE blockIdFromTargets(_, _, _)
\* for (const selector of targets) { query; walk; if (blockId) break }
blockIdFromTargets(r, targets, i) ==
  IF i > Len(targets) THEN None
  ELSE LET q == querySelectorAll(r, targets[i]) IN
       IF q.threw THEN blockIdFromTargets(r, targets, i + 1)
       ELSE IF Truthy(firstBlockIdOf(q.elements, 1))
              THEN firstBlockIdOf(q.elements, 1)
              ELSE blockIdFromTargets(r, targets, i + 1)

\* the block id of a node, and the live-document queries made to find
\* it: the targets first, the html snippet as fallback
resolveBlockId(r, node) ==
  [blockId |-> IF Truthy(blockIdFromTargets(r, node.target, 1))
                 THEN blockIdFromTargets(r, node.target, 1)
                 ELSE htmlFirstBlockId(node),
   queries |-> queriesUntilFound(r, node.target, 1)]

RECURSIVE findBlock(_, _, _)
\* blocks.find((block) => block.attributes?.wpavId === blockId): the index
\* of the first match, 0 for undefined
findBlock(blocks, blockId, i) ==
  IF i > Len(blocks) THEN 0
  ELSE IF blocks[i].wpavId = blockId THEN i
  ELSE findBlock(blocks, blockId, i + 1)

matchingBlock(blocks, blockId) == findBlock(blocks, blockId, 1)

RECURSIVE filterNodes(_, _, _)
filterNodes(r, nodes, i) ==
  IF i > Len(nodes) THEN <<>>
  ELSE (IF keepNode(r, nodes[i]) THEN <<nodes[i]>> ELSE <<>>)
       \o filterNodes(r, nodes, i + 1)

RECURSIVE filterViolationsFrom(_, _, _)
filterViolationsFrom(r, allResults, i) ==
  IF i > Len(allResults) THEN <<>>
  ELSE LET filteredNodes == filterNodes(r, allResults[i].nodes, 1) IN
       (IF Len(filteredNodes) > 0
          THEN <<[id |-> allResults[i].id, nodes |-> filteredNodes]>>
          ELSE <<>>)
       \o filterViolationsFrom(r, allResults, i + 1)

\* allResults.map(keep the nodes inside blocks).filter(nodes.length > 0)
filteredViolations(r, allResults) == filterViolationsFrom(r, allResults, 1)

\* one entry of nodeEntries: <<>> for null, else the violation scoped to
\* the node and its block
nodeEntry(r, blocks, violation, node) ==
  LET blockId == resolveBlockId(r, node).blockId IN
  IF ~Truthy(blockId) THEN <<>>
  ELSE IF matchingBlock(blocks, blockId) = 0 THEN <<>>
  ELSE <<[id |-> violation.id,
          nodes |-> <<node>>,
          blockName |-> blocks[matchingBlock(blocks, blockId)].name,
          blockClientId |-> blocks[matchingBlock(blocks, blockId)].clientId]>>

nodeEntriesFirstOnly(r, blocks, violation, i) ==
  IF Len(violation.nodes) = 0 THEN <<>>
  ELSE nodeEntry(r, blocks, violation, violation.nodes[1])

RECURSIVE nodeEntries(_, _, _, _)
\* violation.nodes.map(...).filter(entry !== null)
nodeEntries(r, blocks, violation, i) ==
  IF i > Len(violation.nodes) THEN <<>>
  ELSE nodeEntry(r, blocks, violation, violation.nodes[i])
       \o nodeEntries(r, blocks, violation, i + 1)

RECURSIVE flatMapFrom(_, _, _, _)
flatMapFrom(r, blocks, violations, i) ==
  IF i > Len(violations) THEN <<>>
  ELSE nodeEntries(r, blocks, violations[i], 1)
       \o flatMapFrom(r, blocks, violations, i + 1)

\* filteredViolations.flatMap(...)
violationsWithBlockIds(r, blocks, allResults) ==
  flatMapFrom(r, blocks, filteredViolations(r, allResults), 1)

\* the ScanMetrics runPreviewScan returns
scanMetrics(r, blocks, allResults) ==
  [totalBlocks |-> blockElements(r),
   scannedBlocks |-> blockElements(r),
   skippedBlocks |-> 0,
   violations |-> violationsWithBlockIds(r, blocks, allResults),
   errors |-> <<>>]

(***************************************************************************)
(* The nodes axe can report for the document rendered from r: the target   *)
(* selects the element, node.html is its outer HTML, complete              *)
(* ("full"), cut down to the opening tag ("tag") or absent ("no").         *)
(***************************************************************************)
RECURSIVE isInside(_, _)
\* e is container or one of its descendants
isInside(e, container) ==
  IF e = None THEN FALSE
  ELSE IF e = container THEN TRUE
  ELSE isInside(parentElement(e), container)

RECURSIVE idsInside(_, _, _)
idsInside(r, container, i) ==
  IF i > Len(DocumentOrder) THEN <<>>
  ELSE (IF inDocument(r, DocumentOrder[i])
           /\ isInside(DocumentOrder[i], container)
           /\ blockIdAttribute(DocumentOrder[i]) # None
          THEN <<blockIdAttribute(DocumentOrder[i])>> ELSE <<>>)
       \o idsInside(r, container, i + 1)

axeNode(r, e, html) ==
  [target |-> <<"#" \o e>>,
   hasHtml |-> html # "no",
   htmlIds |-> CASE html = "full" -> idsInside(r, e, 1)
                 [] html = "tag" ->
                      (IF blockIdAttribute(e) # None
                         THEN <<blockIdAttribute(e)>> ELSE <<>>)
                 [] OTHER -> <<>>]

Elements(r) ==
  {e \in {"main", "el_a", "img_a", "el_b", "div_b", "el_c", "p_c"} : inDocument(r, e)}

\* nodes whose selector array needs the fallbacks of the code: a bad
\* selector ahead of the good one, a selector that matches several
\* elements, a selector that matches nothing in the sandbox document,
\* a snippet whose identifier attribute is empty
oddNodes(r) ==
  {[target |-> <<InvalidSelector, "#img_a">>, hasHtml |-> TRUE, htmlIds |-> <<>>],
   [target |-> <<"img, p">>, hasHtml |-> TRUE, htmlIds |-> <<>>],
   [target |-> <<"#gone">>, hasHtml |-> TRUE, htmlIds |-> idsInside(r, "el_b", 1)],
   [target |-> <<"#gone">>, hasHtml |-> TRUE, htmlIds |-> <<"">>]}

axeNodes(r) ==
  {axeNode(r, e, html) : e \in Elements(r), html \in {"full", "tag", "no"}}
  \cup oddNodes(r)

\* sequences over s of length 1..n
RECURSIVE seqsUpTo(_, _)
seqsUpTo(s, n) ==
  IF n = 0 THEN {}
  ELSE {<<x>> : x \in s}
       \cup {Append(q, x) : q \in seqsUpTo(s, n - 1), x \in s}

(***************************************************************************)
(* State                                                                   *)
(***************************************************************************)
VARIABLES
  \* the host editor (core/editor, core/block-editor, core/edit-post)
  dirty,              \* isEditedPostDirty()
  isSavingPost,       \* isSavingPost()
  isAutosavingPost,   \* isAutosavingPost()
  blocksPresent,      \* the blocks of the tree getBlocks() returns
  sidebarOpen,        \* the general sidebar 'edit-post/document' is open
  panelOpened,        \* isEditorPanelOpened(PANEL_STORE_ID)
  notice,             \* the notice with id SCAN_NOTICE_ID: its type, and the
                      \* number of violations its message gives
  \* useAccessibilityScan
  isScanning,         \* the React state
  closureIsScanning,  \* isScanning as captured by the current handleScanClick
  runError,
  scanSummary,
  \* useStoredScan and the violation store
  storedScan,
  store,
  \* the invocations of handleScanClick
  run,
  \* window.localStorage, and the module initialisation
  localStorage,
  wpavStoreRegistered,  \* window.wpavStoreRegistered
  registrations,        \* the calls of registerViolationStore, and what each
                        \* did: "registered" for a call of registerStore
  toolbar,              \* what a block toolbar has read from the store
                        \* (specification StoreSpec)
  \* the correlation of one set of raw results (specification CorrSpec)
  corr,
  \* one use of the storage utilities (specification StorageSpec)
  stor,
  \* the blocks of the editor and their identifiers (specification IdSpec)
  editor,
  \* the iframe of one call of runPreviewScan (specification SandboxSpec)
  sandbox,
  \* the options and the results of one call of axe.run (specification
  \* AuditSpec)
  audit,
  \* one call of savePostAndWait (specification SaveWaitSpec)
  saveWait

hostVars == <<dirty, isSavingPost, isAutosavingPost, blocksPresent>>
panelVars == <<sidebarOpen, panelOpened>>
hookVars == <<isScanning, closureIsScanning, runError, scanSummary>>
vars == <<dirty, isSavingPost, isAutosavingPost, blocksPresent, sidebarOpen,
          panelOpened, notice, isScanning, closureIsScanning, runError,
          scanSummary, storedScan, store, run, localStorage,
          wpavStoreRegistered, registrations, toolbar, corr, stor, editor,
          sandbox, audit, saveWait>>

partVars == <<sandbox, audit, saveWait>>

\* what the steps of a scan leave alone: the module initialisation and the
\* variables of the other specifications
auxVars ==
  <<wpavStoreRegistered, registrations, toolbar, corr, stor, editor, partVars>>

ErrorMessage == "Unable to complete the accessibility scan. Please try again."

NoSummary == [run |-> 0]
EmptyStore == [run |-> 0, blockViolations |-> <<>>, blockViolationDetails |-> <<>>]
NoNotice == [type |-> None, count |-> 0]
IdleRun ==
  [pc |-> "idle", snap |-> {}, iframe |-> "none", axeScript |-> "none",
   waited |-> FALSE, previewBusy |-> FALSE, gone |-> {}, trace |-> <<>>,
   contentHash |-> None]
NoCorr == [phase |-> "off"]
NoStor == [phase |-> "off"]
NoRead == [clientId |-> None]
NoEditor == <<>>
NoSandbox == [phase |-> "off"]
NoAudit == [phase |-> "off"]
NoWait == [phase |-> "off"]

PartsOff ==
  /\ sandbox = NoSandbox
  /\ audit = NoAudit
  /\ saveWait = NoWait

(***************************************************************************)
(* JavaScript values and JSON.  A value is [t, v]: t is its kind, v its    *)
(* content.  An object is a function from its property names, a property   *)
(* that is not set is not in the domain.  A text is what localStorage      *)
(* holds: [valid, value] with the JSON value it denotes when it parses.    *)
(***************************************************************************)
Num(n) == [t |-> "num", v |-> n]
NaN == [t |-> "nan", v |-> 0]
Str(x) == [t |-> "str", v |-> x]
Arr(a) == [t |-> "arr", v |-> a]
Obj(o) == [t |-> "obj", v |-> o]
Undefined == [t |-> "undef", v |-> 0]
Null == [t |-> "null", v |-> 0]

\* typeof value
typeof(value) ==
  CASE value.t \in {"num", "nan"} -> "number"
    [] value.t = "str" -> "string"
    [] value.t = "undef" -> "undefined"
    [] OTHER -> "object"

\* Array.isArray(value)
isArray(value) == value.t = "arr"

\* parsed.name, undefined for a property that is not set and for a value
\* that is no object
property(value, name) ==
  IF value.t = "obj" /\ name \in DOMAIN value.v THEN value.v[name] ELSE Undefined

\* JSON.stringify of a property value: NaN becomes null
jsonValue(value) == IF value.t = "nan" THEN Null ELSE value

stringifyNumbersAsText(data) ==
  [valid |-> TRUE,
   value |-> Obj([n \in {m \in DOMAIN data : data[m].t # "undef"} |->
                    IF data[n].t = "num" THEN Str("n") ELSE jsonValue(data[n])])]

\* JSON.stringify(data) of an object: the properties whose value is
\* undefined are left out
JSONstringify(data) ==
  [valid |-> TRUE,
   value |-> Obj([n \in {m \in DOMAIN data : data[m].t # "undef"} |->
                    jsonValue(data[n])])]

\* JSON.parse(raw): throws on a text that is no JSON
JSONparse(raw) ==
  IF raw.valid THEN [threw |-> FALSE, value |-> raw.value]
  ELSE [threw |-> TRUE, value |-> Undefined]

\* the timestamps Date.parse accepts
ValidTimestamps == {"2026-01-01T00:00:00.000Z"}
\* Number.isNaN(Date.parse(x)) is false
dateParses(x) == x \in ValidTimestamps

NoItem == [valid |-> FALSE, value |-> Null]        \* getItem returns null
EmptyText == [valid |-> FALSE, value |-> Str("")]  \* the empty string
BadText == [valid |-> FALSE, value |-> Str("{")]   \* a text that is no JSON

\* getStorageKey(postId): `${STORAGE_PREFIX}${postId}`, null without a
\* numeric post id
STORAGE_PREFIX == "wpav-scan-"
PostIds == {"1", "2"}
getStorageKey(postId) ==
  IF postId \in PostIds THEN STORAGE_PREFIX \o postId ELSE None
StorageKeys == {getStorageKey(postId) : postId \in PostIds}
\* the post being edited
CurrentPostId == "1"

validStoredScanNoDate(parsed) ==
  ~(\/ parsed.t \in {"null", "undef"}
    \/ typeof(parsed) # "object"
    \/ typeof(property(parsed, "totalBlocks")) # "number"
    \/ typeof(property(parsed, "scannedBlocks")) # "number"
    \/ typeof(property(parsed, "skippedBlocks")) # "number"
    \/ ~isArray(property(parsed, "violations"))
    \/ ~isArray(property(parsed, "errors"))
    \/ typeof(property(parsed, "contentHash")) # "string"
    \/ typeof(property(parsed, "completedAt")) # "string")

\* the structure check of loadStoredScan
validStoredScan(parsed) ==
  ~(\/ parsed.t \in {"null", "undef"}
    \/ typeof(parsed) # "object"
    \/ typeof(property(parsed, "totalBlocks")) # "number"
    \/ typeof(property(parsed, "scannedBlocks")) # "number"
    \/ typeof(property(parsed, "skippedBlocks")) # "number"
    \/ ~isArray(property(parsed, "violations"))
    \/ ~isArray(property(parsed, "errors"))
    \/ typeof(property(parsed, "contentHash")) # "string"
    \/ typeof(property(parsed, "completedAt")) # "string"
    \/ ~dateParses(property(parsed, "completedAt").v))

\* the body of the try block of loadStoredScan: [threw, value]
loadStoredScanTry(storage, key, readThrows) ==
  IF readThrows THEN [threw |-> TRUE, value |-> Null]
  ELSE LET raw == storage[key] IN
       IF raw = NoItem \/ raw = EmptyText THEN [threw |-> FALSE, value |-> Null]
       ELSE LET parsed == JSONparse(raw) IN
            IF parsed.threw THEN [threw |-> TRUE, value |-> Null]
            ELSE IF ~validStoredScan(parsed.value)
                   THEN [threw |-> FALSE, value |-> Null]
                   ELSE [threw |-> FALSE, value |-> parsed.value]

\* loadStoredScan(key): the catch block returns null; [raised, value]
loadStoredScan(storage, key, readThrows) ==
  LET tried == loadStoredScanTry(storage, key, readThrows) IN
  IF tried.threw THEN [raised |-> FALSE, value |-> Null]
  ELSE [raised |-> FALSE, value |-> tried.value]

saveStoredScanThrowing(storage, key, data, writeThrows) ==
  IF writeThrows THEN [raised |-> TRUE, storage |-> storage]
  ELSE [raised |-> FALSE,
        storage |-> [storage EXCEPT ![key] = JSONstringify(data)]]

\* saveStoredScan(key, data): setItem can throw (quota, access), the catch
\* block logs; [raised, storage]
saveStoredScan(storage, key, data, writeThrows) ==
  IF writeThrows THEN [raised |-> FALSE, storage |-> storage]
  ELSE [raised |-> FALSE,
        storage |-> [storage EXCEPT ![key] = JSONstringify(data)]]

(***************************************************************************)
(* The content snapshot and the staleness of the stored scan               *)
(***************************************************************************)
RECURSIVE serializeFrom(_, _)
\* serialize(blocks): the markup of the blocks, one after the other, the
\* inner blocks between the delimiters of their parent
serializeFrom(blocks, i) ==
  IF i > Len(blocks) THEN ""
  ELSE "<!-- wp:" \o blocks[i].clientId \o " -->"
       \o serializeFrom(blocks[i].innerBlocks, 1)
       \o "<!-- /wp:" \o blocks[i].clientId \o " -->"
       \o serializeFrom(blocks, i + 1)

serialize(blocks) == serializeFrom(blocks, 1)

\* const contentSnapshot = useMemo(() => serialize(blocks), [blocks])
contentSnapshot(p) == serialize(getBlocks(p))

isScanStaleNever(stored, snapshot) == FALSE

\* useStoredScan: isScanStale
isScanStale(stored, snapshot) ==
  IF stored = NoSummary THEN FALSE
  ELSE stored.contentHash # snapshot

\* completedDate.toISOString(): the clock is not modelled
toISOString == CHOOSE t \in ValidTimestamps : TRUE

\* const persisted = {...results, completedAt, contentHash}; run tells the
\* invocation that made it
persistedScan(r, results, hash) ==
  [run |-> r, results |-> results, completedAt |-> toISOString,
   contentHash |-> hash]

\* the StoredScan object handed to JSON.stringify
storedScanObject(scan) ==
  [totalBlocks |-> Num(scan.results.totalBlocks),
   scannedBlocks |-> Num(scan.results.scannedBlocks),
   skippedBlocks |-> Num(scan.results.skippedBlocks),
   violations |-> Arr(scan.results.violations),
   errors |-> Arr(scan.results.errors),
   completedAt |-> Str(scan.completedAt),
   contentHash |-> Str(scan.contentHash)]

Active(r) == run[r].pc \notin {"idle", "complete", "failed"}

Init ==
  /\ dirty \in BOOLEAN
  /\ isSavingPost = FALSE
  /\ isAutosavingPost = FALSE
  /\ blocksPresent = Units
  /\ sidebarOpen = FALSE
  /\ panelOpened = FALSE
  /\ notice = NoNotice
  /\ isScanning = FALSE
  /\ closureIsScanning = FALSE
  /\ runError = None
  /\ scanSummary = NoSummary
  /\ storedScan = NoSummary
  /\ store = EmptyStore
  /\ run = [r \in Runs |-> IdleRun]
  /\ localStorage = [k \in StorageKeys |-> NoItem]
  /\ wpavStoreRegistered = TRUE    \* initializePlugin has run
  /\ registrations = <<"registered">>
  /\ toolbar = NoRead
  /\ corr = NoCorr
  /\ stor = NoStor
  /\ editor = NoEditor
  /\ PartsOff

(***************************************************************************)
(* The orchestrator: useAccessibilityScan.handleScanClick                  *)
(***************************************************************************)
\* openResultsPanel(): open the document sidebar, and toggle the panel
\* open unless it is opened already
openResultsPanel ==
  /\ sidebarOpen' = TRUE
  /\ panelOpened' = (IF ~panelOpened THEN ~panelOpened ELSE panelOpened)

announceNoticeNoCount(type, count) == notice' = [type |-> type, count |-> 0]

\* announceNotice(type, message, ...): replaces the notice SCAN_NOTICE_ID;
\* count is the number of violations the message gives, 0 when it gives none
announceNotice(type, count) == notice' = [type |-> type, count |-> count]

keepIframe(rec) == rec

\* the finally block of runPreviewScan
removeIframe(rec) ==
  IF rec.iframe = "attached" THEN [rec EXCEPT !.iframe = "removed"] ELSE rec

\* a catch block that gives up the summary of the last scan as well
scanFailedClearing(r, rec) ==
  /\ run' = [run EXCEPT ![r] =
               [removeIframe(rec) EXCEPT !.pc = "failed", !.snap = {},
                                         !.axeScript = "none", !.waited = FALSE,
                                         !.trace = <<>>, !.contentHash = None]]
  /\ runError' = ErrorMessage
  /\ openResultsPanel
  /\ announceNotice("error", 0)
  /\ isScanning' = FALSE
  /\ scanSummary' = NoSummary
  /\ UNCHANGED <<closureIsScanning, storedScan, store>>

\* the scan of record rec rejects: the finally block of runPreviewScan,
\* then catch and finally of handleScanClick
scanFailedFrom(r, rec) ==
  /\ run' = [run EXCEPT ![r] =
               [removeIframe(rec) EXCEPT !.pc = "failed", !.snap = {},
                                         !.axeScript = "none", !.waited = FALSE,
                                         !.trace = <<>>, !.contentHash = None]]
  /\ runError' = ErrorMessage
  /\ openResultsPanel
  /\ announceNotice("error", 0)
  /\ isScanning' = FALSE
  /\ UNCHANGED <<closureIsScanning, scanSummary, storedScan, store>>

scanFailed(r) == scanFailedFrom(r, run[r])

\* what the host can answer when the preview is asked for: "noPreview" is
\* getFreshPreviewUrl() returning null, "noContent" a missing post id or
\* content in runPreviewScan
PreviewEnv == {"ok", "noPreview", "noContent"}

\* lines 94-101 of handleScanClick and runPreviewScan up to its first
\* await: the blocks and the content are read, the iframe is attached and
\* the render request is sent
previewAsked(rec) ==
  [rec EXCEPT !.previewBusy = isSavingPost \/ isAutosavingPost]

\* the throw of lines 95-97 of handleScanClick or of lines 200-208 of
\* runPreviewScan, raised after an iframe was made
configurationErrorAfterIframe(r) ==
  scanFailedFrom(r, [previewAsked(run[r]) EXCEPT !.iframe = "attached"])

\* no preview URL, no post id or no content: the throw is caught by
\* handleScanClick before runPreviewScan has made an iframe
configurationError(r) == scanFailedFrom(r, previewAsked(run[r]))

previewStarted(r, rec) ==
  run' = [run EXCEPT ![r] =
            [previewAsked(rec) EXCEPT !.pc = "awaitRender",
                                      !.snap = blocksPresent,
                                      !.iframe = "attached"]]

\* React has a render to commit: the state updates of the running task are
\* applied, and the effects run, before the next task of the event loop
RenderPending ==
  closureIsScanning # isScanning \/ store.run # scanSummary.run

FirstIdle(r) ==
  /\ run[r].pc = "idle"
  /\ \A q \in Runs : q < r => run[q].pc # "idle"

scanGuardOpen(r) == TRUE

\* if (isScanning) return;   -- isScanning of the render that made the callback
scanGuard(r) == ~closureIsScanning

\* handleScanClick up to its first suspension point
handleScanClick(r) ==
  /\ wpavStoreRegistered    \* the plugin is registered by initializePlugin
  /\ ~RenderPending
  /\ FirstIdle(r)
  /\ scanGuard(r)
  /\ IF dirty
       THEN \* savePostAndWait: savePost() dispatched, store subscribed
            /\ isSavingPost' = TRUE
            /\ run' = [run EXCEPT ![r] =
                         [@ EXCEPT !.pc = "awaitSave",
                                   !.contentHash = contentSnapshot(blocksPresent)]]
            /\ isScanning' = TRUE
            /\ runError' = None
            /\ announceNotice("info", 0)
            /\ UNCHANGED <<dirty, isAutosavingPost, blocksPresent, panelVars,
                           closureIsScanning, scanSummary, storedScan, store, localStorage, auxVars>>
       ELSE \* savePostAndWait returns at once
            \E env \in PreviewEnv :
              /\ IF env = "ok"
                   THEN /\ previewStarted(r, [run[r] EXCEPT !.contentHash =
                                                  contentSnapshot(blocksPresent)])
                        /\ isScanning' = TRUE
                        /\ runError' = None
                        /\ announceNotice("info", 0)
                        /\ UNCHANGED <<panelVars, closureIsScanning, scanSummary,
                                       storedScan, store>>
                   ELSE configurationError(r)
              /\ UNCHANGED <<hostVars, localStorage, auxVars>>

savePostSettledAlways(r) == TRUE

\* the subscribe listener of savePostAndWait sees no save in progress
savePostSettled(r) == ~isSavingPost /\ ~isAutosavingPost

\* the listener resolves the save wait, handleScanClick goes on
SaveSettled(r) ==
  /\ ~RenderPending
  /\ run[r].pc = "awaitSave"
  /\ savePostSettled(r)
  /\ \E env \in PreviewEnv :
       IF env = "ok"
         THEN /\ previewStarted(r, [run[r] EXCEPT !.waited = TRUE])
              /\ UNCHANGED <<panelVars, notice, hookVars, storedScan, store>>
         ELSE configurationError(r)
  /\ UNCHANGED <<hostVars, localStorage, auxVars>>

\* the 30 s safety timeout of savePostAndWait
SaveTimeout(r) ==
  /\ ~RenderPending
  /\ run[r].pc = "awaitSave"
  /\ scanFailed(r)
  /\ UNCHANGED <<hostVars, localStorage, auxVars>>

(***************************************************************************)
(* runPreviewScan                                                          *)
(***************************************************************************)
\* apiFetch resolves: iframe.srcdoc = docHtml, then waitForIframeLoad
RenderResponse(r) ==
  /\ ~RenderPending
  /\ run[r].pc = "awaitRender"
  /\ run' = [run EXCEPT ![r] = [@ EXCEPT !.pc = "awaitLoad",
                                          !.trace = Append(@, "render")]]
  /\ UNCHANGED <<hostVars, panelVars, notice, hookVars, storedScan, store, localStorage, auxVars>>

\* apiFetch rejects
RenderFailed(r) ==
  /\ ~RenderPending
  /\ run[r].pc = "awaitRender"
  /\ scanFailed(r)
  /\ UNCHANGED <<hostVars, localStorage, auxVars>>

IframeLoadUnordered(r) ==
  /\ ~RenderPending
  /\ run[r].pc \in {"awaitRender", "awaitLoad"}
  /\ run' = [run EXCEPT ![r] =
               [@ EXCEPT !.pc = "awaitAxeLoad",
                         !.axeScript = "loading",
                         !.trace = Append(Append(@, "load"), "inject")]]
  /\ UNCHANGED <<hostVars, panelVars, notice, hookVars, storedScan, store, localStorage, auxVars>>

\* iframe.onload: the document is read, axe-core is injected
IframeLoad(r) ==
  /\ ~RenderPending
  /\ run[r].pc = "awaitLoad"
  /\ \E accessible \in BOOLEAN :
       IF accessible
         THEN /\ run' = [run EXCEPT ![r] =
                           [@ EXCEPT !.pc = "awaitAxeLoad",
                                     !.axeScript = "loading",
                                     !.trace = Append(Append(@, "load"), "inject")]]
              /\ UNCHANGED <<panelVars, notice, hookVars, storedScan, store>>
         ELSE \* 'Cannot access preview page content due to CORS restrictions'
              scanFailed(r)
  /\ UNCHANGED <<hostVars, localStorage, auxVars>>

\* iframe.onerror
IframeError(r) ==
  /\ ~RenderPending
  /\ run[r].pc = "awaitLoad"
  /\ scanFailed(r)
  /\ UNCHANGED <<hostVars, localStorage, auxVars>>

\* the 15 s timer of waitForIframeLoad
LoadTimeout(r) ==
  /\ ~RenderPending
  /\ run[r].pc = "awaitLoad"
  /\ scanFailed(r)
  /\ UNCHANGED <<hostVars, localStorage, auxVars>>

\* axeScript.onload: loadAxeIntoIframe resolves, axe.run is called unless
\* the window has no axe
AxeScriptLoad(r) ==
  /\ ~RenderPending
  /\ run[r].pc = "awaitAxeLoad"
  /\ run[r].axeScript = "loading"
  /\ \E iframeAxe \in BOOLEAN :
       IF iframeAxe
         THEN /\ run' = [run EXCEPT ![r] =
                           [@ EXCEPT !.pc = "awaitAxeRun",
                                     !.axeScript = "loaded",
                                     !.trace = Append(@, "audit")]]
              /\ UNCHANGED <<panelVars, notice, hookVars, storedScan, store>>
         ELSE \* 'Failed to load axe-core in iframe'
              scanFailed(r)
  /\ UNCHANGED <<hostVars, localStorage, auxVars>>

\* the script element fires its error event: loadAxeIntoIframe has set no
\* onerror handler, so nothing of the scan runs
AxeScriptError(r) ==
  /\ ~RenderPending
  /\ run[r].pc = "awaitAxeLoad"
  /\ run[r].axeScript = "loading"
  /\ run' = [run EXCEPT ![r] = [@ EXCEPT !.axeScript = "error"]]
  /\ UNCHANGED <<hostVars, panelVars, notice, hookVars, storedScan, store, localStorage, auxVars>>

\* the raw results axe can return for the scans of the pipeline: nothing,
\* or one violation with a node in every rendered block that has inner
\* markup, with or without an incomplete result for the first of them
pipelineNodes(r) ==
  SelectSeq(<<axeNode(r, "img_a", "tag"), axeNode(r, "p_c", "tag")>>,
            LAMBDA n : \E e \in Elements(r) : n.target = <<"#" \o e>>)

pipelineResults(r) ==
  IF Len(pipelineNodes(r)) = 0
    THEN {[violations |-> <<>>, incomplete |-> <<>>]}
    ELSE {[violations |-> <<>>, incomplete |-> <<>>],
          [violations |-> <<[id |-> "image-alt", nodes |-> pipelineNodes(r)]>>,
           incomplete |-> <<>>],
          [violations |-> <<[id |-> "image-alt", nodes |-> pipelineNodes(r)]>>,
           incomplete |-> <<[id |-> "color-contrast",
                             nodes |-> <<pipelineNodes(r)[1]>>]>>]}

\* useCurrentBlocks(): the flattened tree of the block editor
useCurrentBlocks(p) == flattenBlocks(getBlocks(p))

\* the blocks handed to runPreviewScan for a scan of the tree p
scanBlocks(p) == useCurrentBlocks(p)

\* persistScan(persisted) of useStoredScan: nothing without a storage key
persistScan(scan, writeThrows) ==
  LET storageKey == getStorageKey(CurrentPostId) IN
  IF storageKey = None
    THEN [raised |-> FALSE, storedScan |-> storedScan, storage |-> localStorage]
    ELSE LET saved == saveStoredScan(localStorage, storageKey,
                                     storedScanObject(scan), writeThrows)
         IN [raised |-> saved.raised, storedScan |-> scan,
             storage |-> saved.storage]

\* axe.run resolves: the results are merged and correlated, runPreviewScan
\* returns, handleScanClick adopts, persists and announces the results; an
\* exception out of persistScan would be caught by the catch block, after
\* the state updates that were made ahead of it
AxeRunResolved(r) ==
  /\ ~RenderPending
  /\ run[r].pc = "awaitAxeRun"
  /\ \E axeResults \in pipelineResults(run[r].snap) :
       \E writeThrows \in BOOLEAN :
         LET allResults == axeResults.violations \o axeResults.incomplete
             results == scanMetrics(run[r].snap, scanBlocks(run[r].snap), allResults)
             persisted == persistScan(persistedScan(r, results, run[r].contentHash),
                                      writeThrows)
             done == [removeIframe(run[r]) EXCEPT
                        !.snap = {},
                        !.axeScript = "none",
                        !.waited = FALSE,
                        !.contentHash = None,
                        !.gone = run[r].snap \ blocksPresent]
         IN /\ scanSummary' = [run |-> r, results |-> results]
            /\ storedScan' = persisted.storedScan
            /\ localStorage' = persisted.storage
            /\ openResultsPanel
            /\ IF persisted.raised
                 THEN /\ run' = [run EXCEPT ![r] =
                                   [done EXCEPT !.pc = "failed", !.trace = <<>>]]
                      /\ runError' = ErrorMessage
                      /\ announceNotice("error", 0)
                 ELSE /\ run' = [run EXCEPT ![r] =
                                   [done EXCEPT
                                      !.pc = "complete",
                                      !.trace = Append(Append(@, "correlate"),
                                                       "persist")]]
                      /\ runError' = runError
                      /\ IF Len(results.violations) > 0
                           THEN announceNotice("warning", Len(results.violations))
                           ELSE announceNotice("success", 0)
            /\ isScanning' = FALSE
  /\ UNCHANGED <<hostVars, closureIsScanning, store, auxVars>>

\* axe.run rejects
AxeRunRejected(r) ==
  /\ ~RenderPending
  /\ run[r].pc = "awaitAxeRun"
  /\ scanFailed(r)
  /\ UNCHANGED <<hostVars, localStorage, auxVars>>

(***************************************************************************)
(* React commits a render: handleScanClick is made anew from the current   *)
(* state, and the effect of useBlockViolations hands the maps derived      *)
(* from scanSummary to the violation store.                                *)
(***************************************************************************)
blockIdsOf(violations) ==
  {violations[i].blockClientId : i \in 1..Len(violations)}

blockViolationTotalsOnePerBlock(violations) ==
  [u \in blockIdsOf(violations) |-> 1]

\* the reduce of blockViolationTotals
blockViolationTotals(violations) ==
  [u \in blockIdsOf(violations) |->
     Cardinality({i \in 1..Len(violations) : violations[i].blockClientId = u})]

\* the reduce of blockViolationDetails
blockViolationDetails(violations) ==
  [u \in blockIdsOf(violations) |->
     SelectSeq(violations, LAMBDA v : v.blockClientId = u)]

setBlockViolationsCountsOnly(summary) ==
  store' = [run |-> summary.run,
            blockViolations |-> blockViolationTotals(summary.results.violations),
            blockViolationDetails |-> store.blockViolationDetails]

\* actions.setBlockViolations and the reducer, SET_BLOCK_VIOLATIONS
setBlockViolations(summary) ==
  store' = [run |-> summary.run,
            blockViolations |-> blockViolationTotals(summary.results.violations),
            blockViolationDetails |-> blockViolationDetails(summary.results.violations)]

Rerender ==
  /\ RenderPending
  /\ closureIsScanning' = isScanning
  /\ IF store.run # scanSummary.run
       THEN /\ setBlockViolations(scanSummary)
            /\ run' = [run EXCEPT ![scanSummary.run].trace = Append(@, "broadcast")]
       ELSE UNCHANGED <<store, run>>
  /\ UNCHANGED <<hostVars, panelVars, notice, isScanning, runError, scanSummary,
                 storedScan, localStorage, auxVars>>

(***************************************************************************)
(* The host: the author edits the tree, the editor saves and autosaves     *)
(***************************************************************************)
\* a block is removed, together with its inner blocks
HostRemoveBlock(u) ==
  /\ ~RenderPending
  /\ u \in blocksPresent
  /\ Cardinality(Units \ blocksPresent) < MaxEdits
  /\ blocksPresent' = blocksPresent \ (IF u = "b" THEN {"b", "c"} ELSE {u})
  /\ dirty' = TRUE
  /\ UNCHANGED <<isSavingPost, isAutosavingPost, panelVars, notice, hookVars,
                 storedScan, store, run, localStorage, auxVars>>

\* the editor starts an autosave of the edited post
HostAutosaveStart ==
  /\ ~RenderPending
  /\ dirty
  /\ ~isSavingPost
  /\ isSavingPost' = TRUE
  /\ isAutosavingPost' = TRUE
  /\ UNCHANGED <<dirty, blocksPresent, panelVars, notice, hookVars, storedScan,
                 store, run, localStorage, auxVars>>

\* the save or autosave request in flight completes; an autosave leaves
\* the post dirty
HostSaveFinish ==
  /\ ~RenderPending
  /\ isSavingPost
  /\ isSavingPost' = FALSE
  /\ isAutosavingPost' = FALSE
  /\ dirty' = (IF isAutosavingPost THEN dirty ELSE FALSE)
  /\ UNCHANGED <<blocksPresent, panelVars, notice, hookVars, storedScan, store,
                 run, localStorage, auxVars>>

Next ==
  \/ \E r \in Runs : handleScanClick(r)
  \/ \E r \in Runs : SaveSettled(r)
  \/ \E r \in Runs : SaveTimeout(r)
  \/ \E r \in Runs : RenderResponse(r)
  \/ \E r \in Runs : RenderFailed(r)
  \/ \E r \in Runs : IframeLoad(r)
  \/ \E r \in Runs : IframeError(r)
  \/ \E r \in Runs : LoadTimeout(r)
  \/ \E r \in Runs : AxeScriptLoad(r)
  \/ \E r \in Runs : AxeScriptError(r)
  \/ \E r \in Runs : AxeRunResolved(r)
  \/ \E r \in Runs : AxeRunRejected(r)
  \/ Rerender
  \/ \E u \in Units : HostRemoveBlock(u)
  \/ HostAutosaveStart
  \/ HostSaveFinish

Spec == Init /\ [][Next]_vars

(***************************************************************************)
(* The same program under the scheduling of the event loop: a pending      *)
(* render is committed, a timer that was set fires, and a request, a       *)
(* document load, a script load or an audit that was started ends one way  *)
(* or the other.                                                           *)
(***************************************************************************)
Fairness ==
  /\ WF_vars(Rerender)
  /\ WF_vars(HostSaveFinish)
  /\ \A r \in Runs :
       /\ WF_vars(SaveSettled(r) \/ SaveTimeout(r))
       /\ WF_vars(RenderResponse(r) \/ RenderFailed(r))
       /\ WF_vars(IframeLoad(r) \/ IframeError(r) \/ LoadTimeout(r))
       /\ WF_vars(AxeScriptLoad(r) \/ AxeScriptError(r))
       /\ WF_vars(AxeRunResolved(r) \/ AxeRunRejected(r))

FairSpec == Spec /\ Fairness

(***************************************************************************)
(* The correlation on its own: the filter and the mapping of               *)
(* runPreviewScan applied to the raw results axe can return for the        *)
(* document rendered from a tree, against the blocks of that tree.         *)
(***************************************************************************)
\* the merged results: one violation with the nodes ns, with or without
\* an incomplete result on its first node
rawResults(ns, incomplete) ==
  <<[id |-> "image-alt", nodes |-> ns]>>
  \o (IF incomplete
        THEN <<[id |-> "color-contrast", nodes |-> <<ns[1]>>]>>
        ELSE <<>>)

\* what the two passes do with one node
nodeLog(r, node) ==
  LET kept == filterNode(r, node) IN
  [node |-> node,
   keep |-> kept.keep,
   filterQueries |-> kept.queries,
   blockId |-> IF kept.keep THEN resolveBlockId(r, node).blockId ELSE None,
   mappingQueries |-> IF kept.keep THEN resolveBlockId(r, node).queries ELSE <<>>]

correlationLog(r, allResults) ==
  [i \in 1..Len(allResults) |->
     [j \in 1..Len(allResults[i].nodes) |-> nodeLog(r, allResults[i].nodes[j])]]

\* the scan pipeline at rest, for the specifications of the parts
PipelineIdle ==
  /\ dirty = FALSE
  /\ isSavingPost = FALSE
  /\ isAutosavingPost = FALSE
  /\ blocksPresent = Units
  /\ sidebarOpen = FALSE
  /\ panelOpened = FALSE
  /\ notice = NoNotice
  /\ isScanning = FALSE
  /\ closureIsScanning = FALSE
  /\ runError = None
  /\ scanSummary = NoSummary
  /\ storedScan = NoSummary
  /\ store = EmptyStore
  /\ run = [r \in Runs |-> IdleRun]
  /\ localStorage = [k \in StorageKeys |-> NoItem]
  /\ wpavStoreRegistered = TRUE
  /\ registrations = <<"registered">>
  /\ toolbar = NoRead

pipelineVars ==
  <<hostVars, panelVars, notice, hookVars, storedScan, store, run,
    localStorage, wpavStoreRegistered, registrations, toolbar>>

CorrInit ==
  /\ PartsOff
  /\ PipelineIdle
  /\ stor = NoStor
  /\ editor = NoEditor
  /\ \E p \in Trees :
       \E ns \in seqsUpTo(axeNodes(p), MaxNodes) :
         \E incomplete \in BOOLEAN :
           corr = [phase |-> "in", snap |-> p,
                   allResults |-> rawResults(ns, incomplete)]

CorrelateConsuming ==
  /\ corr.phase = "in"
  /\ corr' = [phase |-> "out",
              snap |-> corr.snap,
              allResults |-> [i \in 1..Len(corr.allResults) |->
                                [corr.allResults[i] EXCEPT !.nodes = <<>>]],
              log |-> correlationLog(corr.snap, corr.allResults),
              violations |-> violationsWithBlockIds(corr.snap,
                                                    scanBlocks(corr.snap),
                                                    corr.allResults)]
  /\ UNCHANGED <<hostVars, panelVars, notice, hookVars, storedScan, store, run,
                 localStorage, wpavStoreRegistered, registrations, toolbar,
                 stor, editor, partVars>>

\* lines 304-436 of runPreviewScan: map, filter and flatMap build new
\* arrays and objects, the raw results are left as they were
Correlate ==
  /\ corr.phase = "in"
  /\ corr' = [phase |-> "out",
              snap |-> corr.snap,
              allResults |-> corr.allResults,
              log |-> correlationLog(corr.snap, corr.allResults),
              violations |-> violationsWithBlockIds(corr.snap,
                                                    scanBlocks(corr.snap),
                                                    corr.allResults)]
  /\ UNCHANGED <<hostVars, panelVars, notice, hookVars, storedScan, store, run,
                 localStorage, wpavStoreRegistered, registrations, toolbar,
                 stor, editor, partVars>>

\* the same lines once more, on the raw results, the document and the
\* blocks the first pass has left
CorrelateAgain ==
  /\ corr.phase = "out"
  /\ corr' = [phase |-> "again",
              snap |-> corr.snap,
              allResults |-> corr.allResults,
              log |-> corr.log,
              violations |-> corr.violations,
              violationsAgain |-> violationsWithBlockIds(corr.snap,
                                                         scanBlocks(corr.snap),
                                                         corr.allResults)]
  /\ UNCHANGED <<hostVars, panelVars, notice, hookVars, storedScan, store, run,
                 localStorage, wpavStoreRegistered, registrations, toolbar,
                 stor, editor, partVars>>

CorrNext == Correlate \/ CorrelateAgain

CorrSpec == CorrInit /\ [][CorrNext]_vars

(***************************************************************************)
(* Properties of the scan pipeline (specifications Spec and FairSpec)      *)
(***************************************************************************)
\* C1: single flight.  While an invocation of the scan trigger is between
\* its first state update and its finally block, no later invocation has
\* done anything: it has not saved, asked for a preview or made an iframe.
C1_SingleFlight ==
  \A r \in Runs :
    Active(r) => \A q \in Runs : q > r => run[q] = IdleRun

\* a scan is active, the render has been committed, and a further
\* invocation of the trigger is refused by the guard
C1_Witness ==
  \E r \in Runs :
    /\ Active(r)
    /\ r < MaxRuns
    /\ ~RenderPending
    /\ ~scanGuard(r + 1)

\* C2: whenever runPreviewScan has settled, by returning or by throwing,
\* the iframe it created is no longer attached to the host document.
C2_IframeDetached ==
  \A r \in Runs :
    run[r].pc \in {"complete", "failed"} => run[r].iframe # "attached"

\* one scan has completed and another has failed after attaching its
\* iframe, and both iframes have been removed
C2_Witness ==
  \E r, q \in Runs :
    /\ run[r].pc = "complete" /\ run[r].iframe = "removed"
    /\ run[q].pc = "failed" /\ run[q].iframe = "removed"

\* C4 as stated: a block that was in the tree when the scan read it and
\* is removed before the correlation runs has no finding in the results.
C4_Original ==
  \A r \in Runs :
    (run[r].pc = "complete" /\ scanSummary.run = r) =>
      \A i \in 1..Len(scanSummary.results.violations) :
        scanSummary.results.violations[i].blockClientId \notin run[r].gone

StageOrder ==
  <<"render", "load", "inject", "audit", "correlate", "persist", "broadcast">>

\* C7: the stages of a scan happen in the order render, sandbox load,
\* engine injection, audit, correlation, persistence, store replacement,
\* none of them before the one ahead of it is over; the stored scan and
\* the violation store only ever hold the results of a completed scan.
C7_StageOrder ==
  /\ \A r \in Runs :
       /\ Len(run[r].trace) <= Len(StageOrder)
       /\ run[r].trace = SubSeq(StageOrder, 1, Len(run[r].trace))
       /\ (run[r].axeScript # "none") =>
             (Len(run[r].trace) >= 3 /\ run[r].pc \in {"awaitAxeLoad", "awaitAxeRun"})
  /\ storedScan.run # 0 => Len(run[storedScan.run].trace) >= 6
  /\ store.run # 0 => /\ Len(run[store.run].trace) = 7
                      /\ storedScan.run >= store.run

\* a scan has gone through every stage, and its results are in the store
C7_Witness ==
  \E r \in Runs :
    /\ run[r].trace = StageOrder
    /\ store.run = r
    /\ Len(scanSummary.results.violations) > 0

StageFails(r) ==
  \/ run[r].pc # "failed" /\ run'[r].pc = "failed"
  \/ run[r].axeScript # "error" /\ run'[r].axeScript = "error"

\* C9 as stated: a failure of any stage of a scan ends that scan with the
\* error message set, the results panel opened, an error notice shown and
\* isScanning false, and starts no other scan.
C9_Original ==
  [][\A r \in Runs :
       StageFails(r) =>
         /\ run'[r].pc = "failed"
         /\ runError' = ErrorMessage
         /\ sidebarOpen' /\ panelOpened'
         /\ notice'.type = "error"
         /\ ~isScanning'
         /\ \A q \in Runs : q # r => run'[q] = run[q]]_vars

\* C10 as stated: once the axe-core script has failed to load, the scan
\* ends as failed with its iframe removed.
C10_Original ==
  \A r \in Runs :
    (run[r].axeScript = "error") ~>
      (run[r].pc = "failed" /\ run[r].iframe # "attached")

\* the state of the violation store derived from a scan summary
derivedStore(summary) ==
  [run |-> summary.run,
   blockViolations |-> blockViolationTotals(summary.results.violations),
   blockViolationDetails |-> blockViolationDetails(summary.results.violations)]

\* the storage holds the scan under the key of the post
Written(storage, scan) ==
  storage[getStorageKey(CurrentPostId)] = JSONstringify(storedScanObject(scan))

C14_StaleIffHashDiffers ==
  storedScan # NoSummary =>
    (isScanStale(storedScan, contentSnapshot(blocksPresent))
       <=> contentSnapshot(blocksPresent) # storedScan.contentHash)

\* the content was edited after the scan whose results are stored, and the
\* stored scan is stale
C14_Witness ==
  /\ storedScan # NoSummary
  /\ run[storedScan.run].pc = "complete"
  /\ blocksPresent # Units
  /\ storedScan.contentHash = contentSnapshot(Units)
  /\ isScanStale(storedScan, contentSnapshot(blocksPresent))

\* C17: a storage write that fails does not fail the scan: a step that
\* adopts the results of a scan and does not get them into the storage ends
\* the scan as complete, with no error, scanSummary and storedScan set to
\* the new results and the storage as it was, and once the render is
\* committed the violation store holds the maps derived from them.
C17_WriteFailureContained ==
  [][\A r \in Runs :
       /\ (run[r].pc = "awaitAxeRun" /\ scanSummary'.run = r
             /\ scanSummary.run # r /\ ~Written(localStorage', storedScan')) =>
            /\ run'[r].pc = "complete"
            /\ runError' = runError
            /\ storedScan'.run = r
            /\ storedScan'.results = scanSummary'.results
            /\ localStorage' = localStorage
       /\ (run'[r].pc = "complete" /\ scanSummary'.run = r
             /\ ~Written(localStorage', storedScan') /\ ~RenderPending') =>
            store' = derivedStore(scanSummary')]_vars

\* the write of a scan with violations has failed, the scan is complete
\* and its results are in memory and in the store, nothing is in storage
C17_Witness ==
  \E r \in Runs :
    /\ run[r].pc = "complete"
    /\ scanSummary.run = r /\ storedScan.run = r
    /\ store.run = r /\ store.blockViolations # <<>>
    /\ localStorage[getStorageKey(CurrentPostId)] = NoItem

\* the two maps are made from the same list of violations
sameSnapshot(state) ==
  /\ DOMAIN state.blockViolations = DOMAIN state.blockViolationDetails
  /\ \A u \in DOMAIN state.blockViolations :
       state.blockViolations[u] = Len(state.blockViolationDetails[u])

findingsOf(id) == SelectSeq(corr.violations, LAMBDA v : v.id = id)

\* the log entries of the nodes of raw result i that resolve to a block,
\* in the order of the nodes
resolvingNodes(i) ==
  SelectSeq([j \in 1..Len(corr.allResults[i].nodes) |-> corr.log[i][j]],
            LAMBDA l : l.keep /\ \E u \in corr.snap : l.blockId = wpavId(u))

RECURSIVE resolvingCount(_)
resolvingCount(i) ==
  IF i = 0 THEN 0 ELSE Len(resolvingNodes(i)) + resolvingCount(i - 1)

RECURSIVE sumOfCounts(_, _)
sumOfCounts(counts, units) ==
  IF units = {} THEN 0
  ELSE LET u == CHOOSE x \in units : TRUE
       IN counts[u] + sumOfCounts(counts, units \ {u})

snippetIds(node) == {node.htmlIds[n] : n \in 1..Len(node.htmlIds)}

owningUnit(r, node) ==
  IF \E e \in Elements(r) : node.target = <<"#" \o e>> /\ unitOfElement(e) # None
    THEN unitOfElement(CHOOSE e \in Elements(r) : node.target = <<"#" \o e>>)
    ELSE None

ScanRecords ==
  {[totalBlocks |-> tb, scannedBlocks |-> sb, skippedBlocks |-> kb,
    violations |-> vs, errors |-> es, contentHash |-> ch, completedAt |-> ca] :
     tb \in {Num(2), NaN, Undefined},
     sb \in {Num(2), Undefined},
     kb \in {Num(0), Str("0")},
     vs \in {Arr(<<"image-alt">>), Undefined},
     es \in {Arr(<<>>), Str("")},
     ch \in {Str("hash"), Undefined},
     ca \in {Str("2026-01-01T00:00:00.000Z"), Str("yesterday"), Num(0), Undefined}}

\* what the storage holds under the key before the save
Preloads == {"none", "empty", "bad", "null", "number", "array", "record"}

preloaded(kind, data) ==
  CASE kind = "none" -> NoItem
    [] kind = "empty" -> EmptyText
    [] kind = "bad" -> BadText
    [] kind = "null" -> [valid |-> TRUE, value |-> Null]
    [] kind = "number" -> [valid |-> TRUE, value |-> Num(7)]
    [] kind = "array" -> [valid |-> TRUE, value |-> Arr(<<>>)]
    [] OTHER -> JSONstringify(data)

NoLoad == [raised |-> FALSE, value |-> Undefined]

StorageInit ==
  /\ PartsOff
  /\ PipelineIdle
  /\ corr = NoCorr
  /\ editor = NoEditor
  /\ \E key \in StorageKeys, data \in ScanRecords, kind \in Preloads :
       stor = [phase |-> "init",
               key |-> key,
               data |-> data,
               storage |-> [k \in StorageKeys |->
                              IF k = key THEN preloaded(kind, data) ELSE NoItem],
               written |-> FALSE,
               saveRaised |-> FALSE,
               loadKey |-> key,
               readThrew |-> FALSE,
               loaded |-> NoLoad]

\* saveStoredScan(key, data)
StorageSave ==
  /\ stor.phase = "init"
  /\ \E writeThrows \in BOOLEAN :
       LET saved == saveStoredScan(stor.storage, stor.key, stor.data, writeThrows)
       IN stor' = [stor EXCEPT !.phase = "saved",
                               !.storage = saved.storage,
                               !.written = ~writeThrows,
                               !.saveRaised = saved.raised]
  /\ UNCHANGED <<pipelineVars, corr, editor, partVars>>

\* loadStoredScan(key)
StorageLoad ==
  /\ stor.phase \in {"init", "saved"}
  /\ \E key \in StorageKeys, readThrows \in BOOLEAN :
       stor' = [stor EXCEPT !.phase = IF stor.phase = "init" THEN "loaded"
                                      ELSE "reloaded",
                            !.loadKey = key,
                            !.readThrew = readThrows,
                            !.loaded = loadStoredScan(stor.storage, key, readThrows)]
  /\ UNCHANGED <<pipelineVars, corr, editor, partVars>>

StorageNext == StorageSave \/ StorageLoad

StorageSpec == StorageInit /\ [][StorageNext]_vars

(***************************************************************************)
(* Properties of the storage utilities (specification StorageSpec)         *)
(***************************************************************************)
\* the kind of value each field of a StoredScan has
RequiredKinds ==
  [totalBlocks |-> "num", scannedBlocks |-> "num", skippedBlocks |-> "num",
   violations |-> "arr", errors |-> "arr", contentHash |-> "str",
   completedAt |-> "str"]

\* an object with every field of a StoredScan, each of its kind, and a
\* timestamp that parses
wellFormedScan(o) ==
  /\ DOMAIN o = DOMAIN RequiredKinds
  /\ \A n \in DOMAIN RequiredKinds : o[n].t = RequiredKinds[n]
  /\ o["completedAt"].v \in ValidTimestamps

unusableItem(item) ==
  \/ item = NoItem
  \/ ~item.valid
  \/ item.value.t # "obj"
  \/ /\ item.value.t = "obj"
     /\ \/ \E n \in DOMAIN RequiredKinds :
             \/ n \notin DOMAIN item.value.v
             \/ (n \in DOMAIN item.value.v /\ item.value.v[n].t # RequiredKinds[n])
        \/ /\ "completedAt" \in DOMAIN item.value.v
           /\ item.value.v["completedAt"].t = "str"
           /\ item.value.v["completedAt"].v \notin ValidTimestamps

\* C16: loadStoredScan never raises, and it returns null for a missing
\* key, a text that is no JSON, a read error, a record with a field that
\* is absent or of the wrong type, and a timestamp that does not parse.
C16_LoadNeverRaises ==
  stor.phase \in {"loaded", "reloaded"} =>
    /\ ~stor.loaded.raised
    /\ (stor.readThrew \/ unusableItem(stor.storage[stor.loadKey])) =>
         stor.loaded.value = Null

\* a record that is complete but for a timestamp that does not parse was
\* loaded as null
C16_Witness ==
  /\ stor.phase = "loaded"
  /\ ~stor.readThrew
  /\ stor.storage[stor.loadKey].valid
  /\ stor.storage[stor.loadKey].value.t = "obj"
  /\ DOMAIN stor.storage[stor.loadKey].value.v = DOMAIN RequiredKinds
  /\ \A n \in DOMAIN RequiredKinds :
       stor.storage[stor.loadKey].value.v[n].t = RequiredKinds[n]
  /\ stor.storage[stor.loadKey].value.v["completedAt"] = Str("yesterday")
  /\ stor.loaded.value = Null

(***************************************************************************)
(* The stable identifiers of the blocks on their own: the author inserts,  *)
(* duplicates and edits blocks, the editor gives every block it shows the  *)
(* attribute wpavId, and the preview marks the rendered blocks.            *)
(***************************************************************************)
\* the inner HTML a block can have; the second differs from the first by
\* white space only
Contents == {"<p>x</p>", "<p>x</p> ", "<p>y</p>"}

\* trim($block['innerHTML'])
trim(html) == IF html = "<p>x</p> " THEN "<p>x</p>" ELSE html

\* substr(md5(text), 0, 12): a digest, taken to be free of collisions on
\* the contents of the model
md5Prefix(text) == "md5:" \o text

\* add_block_stable_id: the value of data-wpav-block-id of a rendered block
generatedId(block) == md5Prefix(trim(block.innerHTML))

\* the client id the block editor gives the n-th block it creates
newClientId(n) == ToString(n)

IdInit ==
  /\ PartsOff
  /\ PipelineIdle
  /\ corr = NoCorr
  /\ stor = NoStor
  /\ editor = [blocks |-> <<>>, rendered |-> <<>>]

\* the author inserts a block: a new client id, no wpavId yet
InsertBlock(html) ==
  /\ Len(editor.blocks) < MaxBlocks
  /\ editor' = [editor EXCEPT !.blocks =
                  Append(@, [clientId |-> newClientId(Len(editor.blocks) + 1),
                             innerHTML |-> html,
                             wpavId |-> ""])]
  /\ UNCHANGED <<pipelineVars, corr, stor, partVars>>

\* the author duplicates block i: cloneBlock gives the copy a new client
\* id and the attributes of the original
DuplicateBlock(i) ==
  /\ Len(editor.blocks) < MaxBlocks
  /\ i \in 1..Len(editor.blocks)
  /\ editor' = [editor EXCEPT !.blocks =
                  Append(@, [editor.blocks[i] EXCEPT
                               !.clientId = newClientId(Len(editor.blocks) + 1)])]
  /\ UNCHANGED <<pipelineVars, corr, stor, partVars>>

\* the author edits the content of block i
EditContent(i, html) ==
  /\ i \in 1..Len(editor.blocks)
  /\ editor.blocks[i].innerHTML # html
  /\ editor' = [editor EXCEPT !.blocks[i].innerHTML = html]
  /\ UNCHANGED <<pipelineVars, corr, stor, partVars>>

\* the effect of withBlockId for block i
withBlockId(i) ==
  /\ i \in 1..Len(editor.blocks)
  /\ LET currentId == editor.blocks[i].wpavId IN
     /\ ~Truthy(currentId)
     /\ editor' = [editor EXCEPT !.blocks[i].wpavId =
                     "wpav-" \o editor.blocks[i].clientId]
  /\ UNCHANGED <<pipelineVars, corr, stor, partVars>>

\* the preview renders the blocks: render_block runs add_block_stable_id
\* for each of them
RenderPreview ==
  /\ Len(editor.blocks) > 0
  /\ editor' = [editor EXCEPT !.rendered =
                  [i \in 1..Len(editor.blocks) |-> generatedId(editor.blocks[i])]]
  /\ UNCHANGED <<pipelineVars, corr, stor, partVars>>

IdNext ==
  \/ \E html \in Contents : InsertBlock(html)
  \/ \E i \in 1..MaxBlocks : DuplicateBlock(i)
  \/ \E i \in 1..MaxBlocks : \E html \in Contents : EditContent(i, html)
  \/ \E i \in 1..MaxBlocks : withBlockId(i)
  \/ RenderPreview

IdSpec == IdInit /\ [][IdNext]_vars

(***************************************************************************)
(* Properties of the stable identifiers (specification IdSpec)             *)
(***************************************************************************)
\* C12 as stated: no two blocks of the editor carry the same wpavId, and no
\* two blocks of one render carry the same data-wpav-block-id.
C12_Original ==
  /\ \A i, j \in 1..Len(editor.blocks) :
       (i # j /\ Truthy(editor.blocks[i].wpavId)) =>
         editor.blocks[i].wpavId # editor.blocks[j].wpavId
  /\ \A i, j \in 1..Len(editor.rendered) :
       i # j => editor.rendered[i] # editor.rendered[j]

(***************************************************************************)
(* The violation store on its own: the script of the plugin is evaluated   *)
(* once or more, the effect of useBlockViolations hands over the maps of   *)
(* a scan summary, and the toolbar of a block reads its count and details. *)
(***************************************************************************)
registerViolationStoreUnguarded ==
  /\ Len(registrations) < MaxInits
  /\ store' = EmptyStore
  /\ wpavStoreRegistered' = TRUE
  /\ registrations' = Append(registrations, "registered")
  /\ UNCHANGED <<hostVars, panelVars, notice, hookVars, storedScan, run,
                 localStorage, toolbar, corr, stor, editor, partVars>>

\* registerViolationStore(), called by initializePlugin every time the
\* script of the plugin is evaluated
registerViolationStore ==
  /\ Len(registrations) < MaxInits
  /\ IF wpavStoreRegistered
       THEN /\ registrations' = Append(registrations, "skipped")
            /\ UNCHANGED <<store, wpavStoreRegistered>>
       ELSE /\ store' = EmptyStore    \* registerStore(STORE_NAME, ...)
            /\ wpavStoreRegistered' = TRUE
            /\ registrations' = Append(registrations, "registered")
  /\ UNCHANGED <<hostVars, panelVars, notice, hookVars, storedScan, run,
                 localStorage, toolbar, corr, stor, editor, partVars>>

\* a falsy value of JavaScript
Falsy(value) ==
  \/ value.t \in {"undef", "null", "nan"}
  \/ value = Num(0)
  \/ value = Str("")

jsOrLeft(value, default) == value

\* value || default
jsOr(value, default) == IF Falsy(value) THEN default ELSE value

\* selectors.getBlockViolations(state)[clientId]
getBlockViolations(state, clientId) ==
  IF clientId \in DOMAIN state.blockViolations
    THEN Num(state.blockViolations[clientId]) ELSE Undefined

\* selectors.getBlockViolationDetails(state)[clientId]
getBlockViolationDetails(state, clientId) ==
  IF clientId \in DOMAIN state.blockViolationDetails
    THEN Arr(state.blockViolationDetails[clientId]) ELSE Undefined

\* selectors.getBlockViolationsForBlock(state, clientId)
getBlockViolationsForBlock(state, clientId) ==
  jsOr(getBlockViolationDetails(state, clientId), Arr(<<>>))

\* withBlockToolbarIndicator: the count and the details a block shows;
\* without the store the selectors are missing
violationCount(registered, state, clientId) ==
  IF ~registered THEN Num(0)
  ELSE jsOr(getBlockViolations(state, clientId), Num(0))

violationDetails(registered, state, clientId) ==
  IF ~registered THEN Arr(<<>>)
  ELSE jsOr(getBlockViolationDetails(state, clientId), Arr(<<>>))

StoreInit ==
  /\ PartsOff
  /\ dirty = FALSE
  /\ isSavingPost = FALSE
  /\ isAutosavingPost = FALSE
  /\ blocksPresent = Units
  /\ sidebarOpen = FALSE
  /\ panelOpened = FALSE
  /\ notice = NoNotice
  /\ isScanning = FALSE
  /\ closureIsScanning = FALSE
  /\ runError = None
  /\ scanSummary = NoSummary
  /\ storedScan = NoSummary
  /\ store = EmptyStore
  /\ run = [r \in Runs |-> IdleRun]
  /\ localStorage = [k \in StorageKeys |-> NoItem]
  /\ wpavStoreRegistered = FALSE
  /\ registrations = <<>>
  /\ toolbar = NoRead
  /\ corr = NoCorr
  /\ stor = NoStor
  /\ editor = NoEditor

\* the effect of useBlockViolations, for the summary of a scan r of the
\* tree p: dispatch(STORE_NAME)?.setBlockViolations?.(totals, details)
StoreDispatch(r, p) ==
  /\ wpavStoreRegistered
  /\ \E axeResults \in pipelineResults(p) :
       setBlockViolations(
         [run |-> r,
          results |-> scanMetrics(p, scanBlocks(p),
                                  axeResults.violations \o axeResults.incomplete)])
  /\ UNCHANGED <<hostVars, panelVars, notice, hookVars, storedScan, run,
                 localStorage, wpavStoreRegistered, registrations, toolbar,
                 corr, stor, editor, partVars>>

\* the useSelect of withBlockToolbarIndicator for the block clientId, and
\* getBlockViolationsForBlock for it; absent tells that neither map had
\* the block
ToolbarRead(clientId) ==
  /\ toolbar' =
       [clientId |-> clientId,
        absent |-> /\ clientId \notin DOMAIN store.blockViolations
                   /\ clientId \notin DOMAIN store.blockViolationDetails,
        violationCount |-> violationCount(wpavStoreRegistered, store, clientId),
        violationDetails |-> violationDetails(wpavStoreRegistered, store, clientId),
        forBlock |-> getBlockViolationsForBlock(store, clientId)]
  /\ UNCHANGED <<hostVars, panelVars, notice, hookVars, storedScan, store, run,
                 localStorage, wpavStoreRegistered, registrations,
                 corr, stor, editor, partVars>>

StoreNext ==
  \/ registerViolationStore
  \/ \E r \in Runs : \E p \in Trees : StoreDispatch(r, p)
  \/ \E clientId \in Units : ToolbarRead(clientId)

StoreSpec == StoreInit /\ [][StoreNext]_vars

(***************************************************************************)
(* Properties of the violation store (specification StoreSpec)             *)
(***************************************************************************)
\* C19: until maps are handed to it the store has two empty maps, and for
\* a block id that is in neither map the toolbar reads the count 0 and an
\* empty list of details, and getBlockViolationsForBlock gives an empty
\* list.
C19_AbsentReadsEmpty ==
  /\ store.run = 0 =>
        /\ store.blockViolations = <<>>
        /\ store.blockViolationDetails = <<>>
  /\ (toolbar # NoRead /\ toolbar.absent) =>
        /\ toolbar.violationCount = Num(0)
        /\ toolbar.violationDetails = Arr(<<>>)
        /\ toolbar.forBlock = Arr(<<>>)

\* the store holds violations of one block, and the toolbar of another
\* block has read the count 0 and no details from it
C19_Witness ==
  /\ wpavStoreRegistered
  /\ store.blockViolations # <<>>
  /\ toolbar # NoRead
  /\ toolbar.absent
  /\ toolbar.clientId \notin DOMAIN store.blockViolations
  /\ toolbar.violationCount = Num(0)

\* C20: whatever the number of calls of registerViolationStore, at most
\* one of them registers the store, and a call made once the store is
\* registered leaves the state of the store as it is.
C20_RegisteredOnce ==
  [][/\ Cardinality({i \in 1..Len(registrations') :
                       registrations'[i] = "registered"}) <= 1
     /\ (wpavStoreRegistered /\ registrations' # registrations) =>
          /\ store' = store
          /\ wpavStoreRegistered']_vars

\* the store holds the maps of a scan, and registerViolationStore has been
\* called again since it registered the store
C20_Witness ==
  /\ registrations = <<"registered", "skipped">>
  /\ store.run # 0
  /\ store.blockViolations # <<>>

(***************************************************************************)
(* The iframe of runPreviewScan on its own, in the two forms the function  *)
(* has: the one that loads a preview URL (iframe.src, utils/scanner.ts)    *)
(* and the one that renders the content through the REST route             *)
(* (iframe.srcdoc, utils/dom.ts).  ops is the list of the operations made  *)
(* on the iframe element, in the order of the code.                        *)
(***************************************************************************)
MaxSignals == 2

Variants == {"src", "srcdoc"}

IdleCall ==
  [pc |-> "idle", ops |-> <<>>, onload |-> FALSE, onerror |-> FALSE,
   timer |-> "none", error |-> None, late |-> 0]

LoadTimeoutMessage == "Preview page load timeout"
LoadErrorMessage == "Failed to load preview page"
RenderErrorMessage == "Failed to render preview HTML for accessibility scan."
CorsMessage == "Cannot access preview page content due to CORS restrictions"

\* the catch block of runPreviewScan
previewScanFailed(message) == "Preview scan failed: " \o message

leaveIframeAttached(call) == call

\* the finally block: the iframe is removed if it has a parent
removeFromParent(call) ==
  IF \E i \in 1..Len(call.ops) : call.ops[i] = "append"
    THEN [call EXCEPT !.ops = Append(@, "remove")]
    ELSE call

\* the call rejects: catch and finally of runPreviewScan
rejectCall(call, message) ==
  [removeFromParent(call) EXCEPT !.pc = "rejected",
                                 !.error = previewScanFailed(message)]

\* new Promise(...) of the load wait: the timer is set, then the handlers
waitForIframeLoad(call) ==
  [call EXCEPT !.pc = "awaitLoad", !.timer = "armed",
               !.onload = TRUE, !.onerror = TRUE]

SandboxInit ==
  /\ PipelineIdle
  /\ corr = NoCorr
  /\ stor = NoStor
  /\ editor = NoEditor
  /\ audit = NoAudit
  /\ saveWait = NoWait
  /\ \E v \in Variants :
       sandbox = [phase |-> "on", variant |-> v, calls |-> [r \in Runs |-> IdleCall]]

sandboxUnchanged ==
  UNCHANGED <<pipelineVars, corr, stor, editor, audit, saveWait>>

\* one call is made at a time (handleScanClick returns while a scan runs)
CallIdle(r) ==
  /\ sandbox.calls[r].pc = "idle"
  /\ \A q \in Runs : sandbox.calls[q].pc \in {"idle", "resolved", "rejected"}
  /\ \A q \in Runs : q < r => sandbox.calls[q].pc # "idle"

\* runPreviewScan up to its first await
SandboxStart(r) ==
  /\ CallIdle(r)
  /\ sandbox' =
       [sandbox EXCEPT !.calls[r] =
          IF sandbox.variant = "src"
            THEN waitForIframeLoad([@ EXCEPT !.ops = <<"create", "src", "append">>])
            ELSE [@ EXCEPT !.pc = "awaitRender", !.ops = <<"create", "append">>]]
  /\ sandboxUnchanged

\* apiFetch settles
SandboxRender(r) ==
  /\ sandbox.calls[r].pc = "awaitRender"
  /\ \E ok \in BOOLEAN :
       sandbox' =
         [sandbox EXCEPT !.calls[r] =
            IF ok THEN waitForIframeLoad([@ EXCEPT !.ops = Append(@, "srcdoc")])
                  ELSE rejectCall(@, RenderErrorMessage)]
  /\ sandboxUnchanged

\* the iframe fires load or error: the handler runs if one is set; once the
\* promise of the wait is settled, resolve and reject do nothing
SandboxSignal(r, kind) ==
  LET call == sandbox.calls[r]
      handled == IF kind = "load" THEN call.onload ELSE call.onerror
      cleared == [call EXCEPT !.timer = IF @ = "armed" THEN "cleared" ELSE @]
  IN /\ \E i \in 1..Len(call.ops) : call.ops[i] \in {"src", "srcdoc"}
     /\ IF call.pc = "awaitLoad"
          THEN /\ handled
               /\ sandbox' =
                    [sandbox EXCEPT !.calls[r] =
                       IF kind = "load"
                         THEN [cleared EXCEPT !.pc = "scanning"]
                         ELSE rejectCall(cleared, LoadErrorMessage)]
          ELSE /\ call.late < MaxSignals
               /\ sandbox' =
                    [sandbox EXCEPT !.calls[r] =
                       [(IF handled THEN cleared ELSE call) EXCEPT !.late = @ + 1]]
     /\ sandboxUnchanged

\* iframe.onload = null; iframe.onerror = null;
clearHandlers(call) == [call EXCEPT !.onload = FALSE, !.onerror = FALSE]

\* the 15 s timer of the wait fires
SandboxTimeout(r) ==
  /\ sandbox.calls[r].timer = "armed"
  /\ sandbox' =
       [sandbox EXCEPT !.calls[r] =
          rejectCall([clearHandlers(@) EXCEPT !.timer = "fired"],
                     LoadTimeoutMessage)]
  /\ sandboxUnchanged

\* the rest of the scan: the document cannot be read, or the audit ends
SandboxScanEnd(r) ==
  /\ sandbox.calls[r].pc = "scanning"
  /\ \E ok \in BOOLEAN :
       sandbox' =
         [sandbox EXCEPT !.calls[r] =
            IF ok THEN [removeFromParent(@) EXCEPT !.pc = "resolved"]
                  ELSE rejectCall(@, CorsMessage)]
  /\ sandboxUnchanged

SandboxNext ==
  \/ \E r \in Runs : SandboxStart(r)
  \/ \E r \in Runs : SandboxRender(r)
  \/ \E r \in Runs : \E kind \in {"load", "error"} : SandboxSignal(r, kind)
  \/ \E r \in Runs : SandboxTimeout(r)
  \/ \E r \in Runs : SandboxScanEnd(r)

SandboxSpec == SandboxInit /\ [][SandboxNext]_vars

\* C21: in every scan the iframe is attached to the host document before
\* its content, src or srcdoc, is assigned
C21_Original ==
  \A r \in Runs :
    \A i \in 1..Len(sandbox.calls[r].ops) :
      sandbox.calls[r].ops[i] \in {"src", "srcdoc"} =>
        \E j \in 1..(i - 1) : sandbox.calls[r].ops[j] = "append"

\* C22: a call whose 15 s timer has fired is rejected with the error of the
\* timeout and its iframe is removed, whatever the iframe fires afterwards
C22_TimeoutFails ==
  \A r \in Runs :
    LET call == sandbox.calls[r] IN
    call.timer = "fired" =>
      /\ call.pc = "rejected"
      /\ call.error = previewScanFailed(LoadTimeoutMessage)
      /\ call.ops[Len(call.ops)] = "remove"
      /\ ~call.onload /\ ~call.onerror

\* a call has timed out and its iframe has fired a signal since
C22_Witness ==
  \E r \in Runs :
    /\ sandbox.calls[r].timer = "fired"
    /\ sandbox.calls[r].late > 0

(***************************************************************************)
(* Claims on the failures of the pipeline (specification Spec)             *)
(***************************************************************************)
\* C23: an attempt that fails before its render request is sent (no preview
\* URL, no post id, no content) has made no iframe, and a failed attempt
\* is final: it makes no iframe and runs no audit afterwards
C23_FailsFast ==
  [][\A r \in Runs :
       /\ (run[r].pc \in {"idle", "awaitSave"} /\ run'[r].pc = "failed")
            => run'[r].iframe = "none"
       /\ run[r].pc = "failed" => run'[r] = run[r]]_vars

\* the first attempt has failed without an iframe, with no save asked for,
\* and the second attempt is not started
C23_Witness ==
  /\ run[1].pc = "failed"
  /\ run[1].iframe = "none"
  /\ run[2].pc = "idle"
  /\ ~isSavingPost
  /\ runError = ErrorMessage
  /\ notice.type = "error"

(***************************************************************************)
(* The blocks of the editor under the steps of the plugin (specification   *)
(* IdSpec)                                                                 *)
(***************************************************************************)
\* C24 as stated: no step of the plugin (here the effect of withBlockId
\* and the rendering of the preview) changes the blocks of the editor or
\* their attributes.
C24_Original ==
  [][((\E i \in 1..MaxBlocks : withBlockId(i)) \/ RenderPreview)
       => editor'.blocks = editor.blocks]_vars

(***************************************************************************)
(* The call of axe.run on its own: the tags are read from                  *)
(* window.wpavSettings, the options are built, axe runs and its results    *)
(* are merged.                                                             *)
(***************************************************************************)
DEFAULT_WCAG_TAGS ==
  <<Str("wcag2a"), Str("wcag2aa"), Str("wcag2aaa"), Str("wcag21a"),
    Str("wcag21aa"), Str("wcag22aa")>>

\* what window.wpavSettings can hold: the settings localized by the admin
\* class, or values of other kinds
TagInputs ==
  {Undefined, Str("wcag2a"), Arr(<<>>), Arr(<<Str("wcag2a")>>),
   Arr(<<Str("wcag2a"), Str("wcag21aa")>>), Arr(<<Num(1)>>),
   Arr(<<Num(1), Str("wcag2aa")>>)}
DefaultInputs == {Undefined, Arr(<<>>), Arr(<<Str("wcag2aa")>>)}
LabelInputs ==
  {Undefined, Obj(<<>>), Obj([k \in {"wcag21a"} |-> Str("WCAG 2.1 Level A")])}

\* Object.keys(o), for the objects of the model, which have one property
\* at most
ObjectKeys(o) ==
  IF DOMAIN o.v = {} THEN <<>> ELSE <<Str(CHOOSE k \in DOMAIN o.v : TRUE)>>

\* window.wpavSettings?.availableWcagTags ?? {}
getAvailableWcagLabels(settings) ==
  LET labels == property(settings, "availableWcagTags") IN
  IF labels.t \in {"undef", "null"} THEN Obj(<<>>) ELSE labels

resolveDefaultWcagTags(settings) ==
  LET defaults == property(settings, "defaultWcagTags")
      labelKeys == ObjectKeys(getAvailableWcagLabels(settings))
  IN IF isArray(defaults) /\ Len(defaults.v) > 0 THEN defaults.v
     ELSE IF Len(labelKeys) > 0 THEN labelKeys ELSE DEFAULT_WCAG_TAGS

getConfiguredWcagTags(settings) ==
  LET tags == property(settings, "wcagTags") IN
  IF isArray(tags) /\ Len(tags.v) > 0
    THEN SelectSeq(tags.v, LAMBDA tag : typeof(tag) = "string")
    ELSE resolveDefaultWcagTags(settings)

resultTypes == <<"violations", "incomplete">>

runOptionsAlwaysFiltered(wcagTags) ==
  [resultTypes |-> resultTypes,
   runOnly |-> [type |-> "tag", values |-> wcagTags]]

\* the options of axe.run: runOnly is set for a list of tags that is not
\* empty
runOptions(wcagTags) ==
  IF Len(wcagTags) > 0
    THEN [resultTypes |-> resultTypes,
          runOnly |-> [type |-> "tag", values |-> wcagTags]]
    ELSE [resultTypes |-> resultTypes]

\* the rules axe runs: those of the tags of runOnly, and every rule that
\* is enabled by default when the options have no runOnly
rulesRun(options) ==
  IF "runOnly" \in DOMAIN options
    THEN [by |-> "tag", tags |-> options.runOnly.values]
    ELSE [by |-> "default", tags |-> <<>>]

\* the rule ids of the results axe can return
ViolationResults == {<<>>, <<"image-alt">>, <<"image-alt", "label">>}
IncompleteResults == {<<>>, <<"color-contrast">>}

AuditInit ==
  /\ PipelineIdle
  /\ corr = NoCorr
  /\ stor = NoStor
  /\ editor = NoEditor
  /\ sandbox = NoSandbox
  /\ saveWait = NoWait
  /\ \E settings \in {Undefined} \cup
                     {Obj([wcagTags |-> t, defaultWcagTags |-> d,
                           availableWcagTags |-> l]) :
                        t \in TagInputs, d \in DefaultInputs, l \in LabelInputs} :
       audit = [phase |-> "configured", wpavSettings |-> settings]

\* lines 272-298 of runPreviewScan
AuditRun ==
  /\ audit.phase = "configured"
  /\ \E violations \in ViolationResults, incomplete \in IncompleteResults :
       LET wcagTags == getConfiguredWcagTags(audit.wpavSettings)
           options == runOptions(wcagTags)
           axeResults == [violations |-> violations, incomplete |-> incomplete]
       IN audit' = [phase |-> "ran",
                    wpavSettings |-> audit.wpavSettings,
                    wcagTags |-> wcagTags,
                    runOptions |-> options,
                    rules |-> rulesRun(options),
                    axeResults |-> axeResults,
                    allResults |-> axeResults.violations \o axeResults.incomplete]
  /\ UNCHANGED <<pipelineVars, corr, stor, editor, sandbox, saveWait>>

\* another document is scanned under the same settings
AuditAgain ==
  /\ audit.phase = "ran"
  /\ audit' = [phase |-> "configured", wpavSettings |-> audit.wpavSettings]
  /\ UNCHANGED <<pipelineVars, corr, stor, editor, sandbox, saveWait>>

AuditNext == AuditRun \/ AuditAgain

AuditSpec == AuditInit /\ [][AuditNext]_vars

\* C25: axe is asked for violations and incomplete results, the merged list
\* is the violations followed by the incomplete results, runOnly is in the
\* options exactly when the list of configured tags is not empty, and with
\* an empty list axe runs its default rules
C25_RunOptions ==
  audit.phase = "ran" =>
    /\ audit.runOptions.resultTypes = <<"violations", "incomplete">>
    /\ Len(audit.allResults) =
         Len(audit.axeResults.violations) + Len(audit.axeResults.incomplete)
    /\ \A i \in 1..Len(audit.axeResults.violations) :
         audit.allResults[i] = audit.axeResults.violations[i]
    /\ \A i \in 1..Len(audit.axeResults.incomplete) :
         audit.allResults[Len(audit.axeResults.violations) + i] =
           audit.axeResults.incomplete[i]
    /\ ("runOnly" \in DOMAIN audit.runOptions) <=> (audit.wcagTags # <<>>)
    /\ "runOnly" \in DOMAIN audit.runOptions =>
         audit.runOptions.runOnly = [type |-> "tag", values |-> audit.wcagTags]
    /\ audit.wcagTags = <<>> => audit.rules.by = "default"

\* the settings hold tags none of which is a string: the list of
\* configured tags is empty, and axe has returned results of both kinds
C25_Witness ==
  /\ audit.phase = "ran"
  /\ audit.wcagTags = <<>>
  /\ "runOnly" \notin DOMAIN audit.runOptions
  /\ audit.axeResults.violations # <<>>
  /\ audit.axeResults.incomplete # <<>>

(***************************************************************************)
(* The selector path of the correlation (specification CorrSpec)           *)
(***************************************************************************)
\* e lies in the markup of a rendered block
insideBlock(e) ==
  \E x \in {"el_a", "el_b", "el_c"} : isInside(e, x)

\* the innermost element with an identifier that holds e
nearestCarrier(e) ==
  CHOOSE x \in {"el_a", "el_b", "el_c"} :
    /\ isInside(e, x)
    /\ \A y \in {"el_a", "el_b", "el_c"} : isInside(e, y) => isInside(x, y)

position(e) == CHOOSE i \in 1..Len(DocumentOrder) : DocumentOrder[i] = e

\* the elements of the document a selector of a node matches that lie in
\* a block; none for a selector that is no selector
matchedInBlocks(r, selector) ==
  IF selector = InvalidSelector THEN {}
  ELSE {e \in selectorMatches(selector) : inDocument(r, e) /\ insideBlock(e)}

yieldingSelectors(r, node) ==
  {i \in 1..Len(node.target) : matchedInBlocks(r, node.target[i]) # {}}

\* the identifier of the nearest carrier of the first element, in document
\* order, of the first selector that matches an element in a block
acceptedId(r, node) ==
  LET i == CHOOSE k \in yieldingSelectors(r, node) :
             \A m \in yieldingSelectors(r, node) : k <= m
      e == CHOOSE x \in matchedInBlocks(r, node.target[i]) :
             \A y \in matchedInBlocks(r, node.target[i]) : position(x) <= position(y)
  IN blockIdAttribute(nearestCarrier(e))

findingsWithBlock(summary) ==
  {i \in 1..Len(summary.results.violations) :
     Truthy(summary.results.violations[i].blockClientId)}

\* C27: in a store that holds the maps of a scan, the count of a block is
\* the length of its list of details, the blocks with a count above zero
\* are the blocks with a list that is not empty, and, as long as the
\* summary of that scan is the one adopted, the counts add up to the
\* number of its findings that carry a block
C27_CountsMatchDetails ==
  store.run # 0 =>
    /\ \A u \in DOMAIN store.blockViolations :
         /\ u \in DOMAIN store.blockViolationDetails
         /\ store.blockViolations[u] = Len(store.blockViolationDetails[u])
    /\ {u \in DOMAIN store.blockViolations : store.blockViolations[u] > 0}
         = {u \in DOMAIN store.blockViolationDetails :
              Len(store.blockViolationDetails[u]) > 0}
    /\ store.run = scanSummary.run =>
         sumOfCounts(store.blockViolations, DOMAIN store.blockViolations)
           = Cardinality(findingsWithBlock(scanSummary))

\* the store holds the maps of the adopted summary, with two findings for
\* one block and one for another
C27_Witness ==
  /\ store.run # 0
  /\ store.run = scanSummary.run
  /\ \E u, w \in DOMAIN store.blockViolations :
       /\ store.blockViolations[u] = 2
       /\ store.blockViolations[w] = 1
  /\ Cardinality(findingsWithBlock(scanSummary)) = 3

(***************************************************************************)
(* savePostAndWait on its own: the calls made one after the other, the     *)
(* editor saving and autosaving, and the store calling the subscribed      *)
(* listener, in the same task, for every change of its state.              *)
(***************************************************************************)
MaxCalls == 3

IdleWait ==
  [phase |-> "on", pc |-> "idle", subscribed |-> FALSE, timer |-> "none",
   saves |-> 0, settles |-> 0, sawIdle |-> FALSE, calls |-> 0, past |-> <<>>]

SaveWaitInit ==
  /\ dirty \in BOOLEAN
  /\ isSavingPost = FALSE
  /\ isAutosavingPost = FALSE
  /\ blocksPresent = Units
  /\ sidebarOpen = FALSE
  /\ panelOpened = FALSE
  /\ notice = NoNotice
  /\ isScanning = FALSE
  /\ closureIsScanning = FALSE
  /\ runError = None
  /\ scanSummary = NoSummary
  /\ storedScan = NoSummary
  /\ store = EmptyStore
  /\ run = [r \in Runs |-> IdleRun]
  /\ localStorage = [k \in StorageKeys |-> NoItem]
  /\ wpavStoreRegistered = TRUE
  /\ registrations = <<"registered">>
  /\ toolbar = NoRead
  /\ corr = NoCorr
  /\ stor = NoStor
  /\ editor = NoEditor
  /\ sandbox = NoSandbox
  /\ audit = NoAudit
  /\ saveWait = IdleWait

saveWaitUnchanged ==
  UNCHANGED <<blocksPresent, panelVars, notice, hookVars, storedScan, store,
              run, localStorage, wpavStoreRegistered, registrations, toolbar,
              corr, stor, editor, sandbox, audit>>

leaveTimer(w) == w

\* clearTimeout(timeoutId)
clearTimeout(w) == [w EXCEPT !.timer = IF @ = "armed" THEN "cleared" ELSE @]

\* resolve() or reject(): the first call settles the promise, a later one
\* does nothing
settle(w, outcome) ==
  [w EXCEPT !.pc = IF @ = "waiting" THEN outcome ELSE @, !.settles = @ + 1]

\* the listener given to subscribe, called with the state after a change
listener(w, saving, autosaving) ==
  IF ~saving /\ ~autosaving
    THEN settle([clearTimeout(w) EXCEPT !.subscribed = FALSE, !.sawIdle = TRUE],
                "resolved")
    ELSE w

\* the store has changed: it calls the listeners that are subscribed
storeChanged(w, saving, autosaving) ==
  IF w.subscribed THEN listener(w, saving, autosaving) ELSE w

\* savePostAndWait() is called; handleScanClick makes no call while one
\* is pending
SavePostAndWait ==
  /\ saveWait.pc \in {"idle", "returned", "resolved", "rejected"}
  /\ saveWait.calls < MaxCalls
  /\ LET past == IF saveWait.pc = "idle" THEN saveWait.past
                 ELSE Append(saveWait.past, saveWait.pc)
         called == [IdleWait EXCEPT !.calls = saveWait.calls + 1, !.past = past]
     IN IF ~dirty
          THEN /\ saveWait' = [called EXCEPT !.pc = "returned", !.settles = 1]
               /\ UNCHANGED <<dirty, isSavingPost, isAutosavingPost>>
          ELSE /\ saveWait' = [called EXCEPT !.pc = "waiting", !.saves = 1,
                                             !.subscribed = TRUE,
                                             !.timer = "armed"]
               /\ isSavingPost' = TRUE
               /\ UNCHANGED <<dirty, isAutosavingPost>>
  /\ saveWaitUnchanged

\* the 30 s timer fires
SaveWaitTimeout ==
  /\ saveWait.timer = "armed"
  /\ saveWait' = settle([saveWait EXCEPT !.timer = "fired", !.subscribed = FALSE],
                        "rejected")
  /\ UNCHANGED <<dirty, isSavingPost, isAutosavingPost>>
  /\ saveWaitUnchanged

\* the author edits the post
EditorEdit ==
  /\ ~dirty
  /\ dirty' = TRUE
  /\ saveWait' = storeChanged(saveWait, isSavingPost, isAutosavingPost)
  /\ UNCHANGED <<isSavingPost, isAutosavingPost>>
  /\ saveWaitUnchanged

\* the editor starts an autosave
EditorAutosaveStart ==
  /\ dirty
  /\ ~isSavingPost
  /\ isSavingPost' = TRUE
  /\ isAutosavingPost' = TRUE
  /\ saveWait' = storeChanged(saveWait, TRUE, TRUE)
  /\ UNCHANGED dirty
  /\ saveWaitUnchanged

\* the save or autosave in flight ends: an autosave, or a save request
\* that failed, leaves the post dirty
EditorSaveFinish ==
  /\ isSavingPost
  /\ isSavingPost' = FALSE
  /\ isAutosavingPost' = FALSE
  /\ \E saved \in BOOLEAN :
       dirty' = (IF isAutosavingPost \/ ~saved THEN dirty ELSE FALSE)
  /\ saveWait' = storeChanged(saveWait, FALSE, FALSE)
  /\ saveWaitUnchanged

SaveWaitNext ==
  \/ SavePostAndWait
  \/ SaveWaitTimeout
  \/ EditorEdit
  \/ EditorAutosaveStart
  \/ EditorSaveFinish

SaveWaitSpec == SaveWaitInit /\ [][SaveWaitNext]_vars

\* C28: a call of savePostAndWait settles once.  It returns with no save
\* asked for when the post was not dirty; else it has asked for one save
\* and is pending, subscribed, with its timer set, until the listener sees
\* no save and no autosave in progress and resolves, or the timer fires
\* and rejects; after either the listener is unsubscribed and the timer
\* cannot fire, and a call whose listener saw the save done is not rejected
C28_SettlesOnce ==
  /\ saveWait.settles <= 1
  /\ saveWait.pc = "returned" =>
       /\ saveWait.saves = 0 /\ saveWait.settles = 1
       /\ ~saveWait.subscribed /\ saveWait.timer = "none"
  /\ saveWait.pc = "waiting" =>
       /\ saveWait.saves = 1 /\ saveWait.settles = 0
       /\ saveWait.subscribed /\ saveWait.timer = "armed"
       /\ isSavingPost \/ isAutosavingPost
  /\ saveWait.pc = "resolved" =>
       /\ saveWait.saves = 1 /\ saveWait.settles = 1
       /\ ~saveWait.subscribed /\ saveWait.timer = "cleared"
       /\ saveWait.sawIdle
  /\ saveWait.pc = "rejected" =>
       /\ saveWait.saves = 1 /\ saveWait.settles = 1
       /\ ~saveWait.subscribed /\ saveWait.timer = "fired"
       /\ ~saveWait.sawIdle

\* a first call has timed out and a second one has resolved after the
\* save was done
C28_Witness ==
  /\ saveWait.past = <<"rejected">>
  /\ saveWait.pc = "resolved"
  /\ ~isSavingPost

(***************************************************************************)
(* What a failed attempt leaves alone (specification Spec)                 *)
(***************************************************************************)
\* a step in which attempt r fails
failureStep(r) == run[r].pc # "failed" /\ run'[r].pc = "failed"

C30_Original ==
  [][\A r \in Runs :
       (run[r].pc = "awaitAxeRun" /\ run'[r].pc = "complete") =>
         /\ storedScan'.contentHash = contentSnapshot(run[r].snap)
         /\ blocksPresent' = run[r].snap =>
              ~isScanStale(storedScan', contentSnapshot(blocksPresent'))]_vars

====
